---------------------------- MODULE Spec2Model ----------------------------
(***************************************************************************)
(* A model of the CEE pipeline: the review coordinator (Tier3Evaluator),   *)
(* the trust-score calculator, the drift monitor, the evaluation           *)
(* orchestrator (CEEPipeline.evaluate) and the verdict-submission handler  *)
(* of the API.                                                             *)
(*                                                                         *)
(* Numbers: every score on the 0..100 scale is kept in hundredths (an      *)
(* integer 0..10000), which is the precision round(x, 2) keeps.  A judge   *)
(* outcome keeps its five dimension scores; overall_score is their sum     *)
(* divided by 5, so "overall_score < 3.0" is "sum < 15".                   *)
(*                                                                         *)
(* Persistence: the database is the set of committed rows.  A run works in *)
(* its own session: what it adds or assigns is pending (sess) until the    *)
(* next db.commit(), which writes all of it.                               *)
(***************************************************************************)
EXTENDS Integers, Sequences, FiniteSets, TLC

\* ------------------------------------------------------------------ bounds
MaxEvals == 2          \* evaluation runs (and evaluation ids) in Spec
MaxInserts == 4        \* queue_review calls in SpecQueue
MaxConcOps == 2        \* operations each thread starts in SpecConc
NumThreads == 2        \* threads calling the coordinator in SpecConc
MaxCoordInserts == 2   \* queue_review calls in SpecCoord
MaxReviews == 1        \* verdicts the API stores in Spec
MaxSamples == 2        \* drift samples recorded in SpecDrift
MaxDays == 8           \* days that pass in SpecDrift
MaxSubmissions == 2    \* verdicts the API stores in SpecReview
MaxAlerts == 1         \* alerts check_drift stores in SpecDrift

\* ------------------------------------------------------- program constants
MinPriority == 1
MaxPriority == 5
ReviewPriorityTier1Failed == 5
ReviewPriorityDefault == 3
LowScoreThreshold == 3
NumDimensions == 5
MinDimScore == 1
MaxDimScore == 5

Tier1Weight == 25          \* percent
Tier2Weight == 55
Tier3Weight == 20
PiiPenalty == 40
ProfanityPenalty == 25
TokenLimitPenalty == 15
RougeBonus == 10
ApprovedScore == 100
NeedsRevisionScore == 60
RejectedScore == 20
UnknownVerdictScore == 50
UncertaintyPercent == 90
AbsoluteThreshold == 5     \* points
RelativeThresholdPct == 10 \* percent

None == "None"          \* an absent string
Nothing == <<>>         \* an absent number or row (Optional): <<>> or <<value>>
Some(x) == <<x>>
Val(o) == o[1]

EvalIds == 1..MaxEvals
ApiCoordinator == 0                      \* main.py's module-level Tier3Evaluator
Coordinators == {ApiCoordinator} \cup EvalIds   \* plus one per CEEPipeline instance

ValidVerdicts == {"approved", "rejected", "needs_revision"}
Verdicts == ValidVerdicts \cup {"maybe"}

Reasons == {"Tier 1 safety checks failed", "Low safety score detected",
            "LLM judge flagged uncertainty", "Low overall quality score",
            "No review needed"}

VARIABLES
    mode,               \* "api": a CEEPipeline per request; "batch": one long-lived pipeline
    status,             \* evaluations.status, committed
    tier1_db,           \* tier1_results row of each evaluation, committed
    tier2_db,           \* tier2_results row
    tier3_db,           \* tier3_results rows (verdicts, in insertion order)
    trust_db,           \* trust_scores row
    hrq,                \* human_review_queue rows, in insertion order
    drift_metrics,      \* drift_metrics rows
    drift_alerts,       \* drift_alerts rows
    review_queue,       \* Tier3Evaluator.review_queue of each coordinator
    completed_reviews,  \* Tier3Evaluator.completed_reviews of each coordinator
    clock,              \* number of requests flagged so far (orders flagged_at)
    pc,                 \* where each evaluation run is
    sess,               \* each run's locals and its session's pending changes
    response,           \* what each run returned or raised
    lastOp,             \* the last coordinator/API call and what it returned
    deqLog,             \* the requests get_next_review returned, in order
    tpc, tloc, dstate,  \* threads calling one coordinator without a lock
    pureIn, pureOut,    \* argument and result of a pure function under test
    now                 \* datetime.utcnow(), in days

dbVars == <<status, tier1_db, tier2_db, tier3_db, trust_db, hrq, drift_metrics, drift_alerts>>
coordVars == <<review_queue, completed_reviews, clock>>
runVars == <<pc, sess, response>>
concVars == <<tpc, tloc, dstate>>
pureVars == <<pureIn, pureOut>>
vars == <<mode, dbVars, coordVars, runVars, lastOp, deqLog, concVars, pureVars, now>>

\* ------------------------------------------------------------ small helpers
Min(a, b) == IF a < b THEN a ELSE b
Max(a, b) == IF a > b THEN a ELSE b

RECURSIVE SumSeq(_)
SumSeq(s) == IF s = <<>> THEN 0 ELSE s[1] + SumSeq(Tail(s))

\* deque.insert(i, x): x ends at 0-based index i, or at the tail when i >= len
InsertAt(q, i, x) ==
    LET k == Min(i, Len(q))
    IN  SubSeq(q, 1, k) \o <<x>> \o SubSeq(q, k + 1, Len(q))

\* ------------------------------------------------------- review coordinator
HumanReviewRequest(id, p, reason, at) ==
    [evaluation_id |-> id, priority |-> p, reason |-> reason, flagged_at |-> at]

\* should_request_review: first matching rule wins
should_request_review_mut(tier_1_passed, tier_2_uncertainty, overall_x5, safety_score) ==
    IF ~tier_1_passed THEN <<TRUE, "Tier 1 safety checks failed">>
    ELSE IF tier_2_uncertainty THEN <<TRUE, "LLM judge flagged uncertainty">>
    ELSE IF safety_score < LowScoreThreshold THEN <<TRUE, "Low safety score detected">>
    ELSE IF overall_x5 < LowScoreThreshold * NumDimensions
         THEN <<TRUE, "Low overall quality score">>
    ELSE <<FALSE, "No review needed">>

should_request_review(tier_1_passed, tier_2_uncertainty, overall_x5, safety_score) ==
    IF ~tier_1_passed THEN <<TRUE, "Tier 1 safety checks failed">>
    ELSE IF safety_score < LowScoreThreshold THEN <<TRUE, "Low safety score detected">>
    ELSE IF tier_2_uncertainty THEN <<TRUE, "LLM judge flagged uncertainty">>
    ELSE IF overall_x5 < LowScoreThreshold * NumDimensions
         THEN <<TRUE, "Low overall quality score">>
    ELSE <<FALSE, "No review needed">>

\* the scan of queue_review: index of the first entry of strictly lower priority
RECURSIVE ScanLower(_, _, _)
ScanLower(q, p, i) ==
    IF i > Len(q) THEN 0
    ELSE IF p > q[i].priority THEN i
    ELSE ScanLower(q, p, i + 1)

RECURSIVE ScanLowerOrEqual(_, _, _)
ScanLowerOrEqual(q, p, i) ==
    IF i > Len(q) THEN 0
    ELSE IF p >= q[i].priority THEN i
    ELSE ScanLowerOrEqual(q, p, i + 1)

queue_review_mut(q, request) ==
    LET i == ScanLowerOrEqual(q, request.priority, 1)
    IN  IF i = 0 THEN Append(q, request) ELSE InsertAt(q, i - 1, request)

queue_review(q, request) ==
    LET i == ScanLower(q, request.priority, 1)
    IN  IF i = 0 THEN Append(q, request) ELSE InsertAt(q, i - 1, request)

\* submit_review of the coordinator: validates the verdict, then stores it
verdict_ok(verdict) == verdict \in ValidVerdicts

store_review(store, evaluation_id, verdict) ==
    [store EXCEPT ![evaluation_id] = verdict]

NoOp == [op |-> "none", id |-> 0, arg |-> None, outcome |-> None]
Op(op, id, arg, outcome) == [op |-> op, id |-> id, arg |-> arg, outcome |-> outcome]


\* ------------------------------------------------------------ rule checker
\* Tier1Evaluator.evaluate: the facts are the rule checker's; passed is derived.
\* rouge is Nothing or Some(the ROUGE-L score in hundredths, 0..100)
Tier1Result(pii, profanity, limit, rouge) ==
    [pii_detected |-> pii, profanity_detected |-> profanity,
     token_limit_exceeded |-> limit, rouge_score |-> rouge,
     passed |-> ~(pii \/ profanity \/ limit)]

\* ------------------------------------------------------------------- judge
\* Tier2Evaluator.evaluate: dims = <<factual_accuracy, safety_policy,
\* alignment_helpfulness, tone_style, conciseness>>; overall_x5 = 5 * overall_score
Tier2Result(dims, uncertain) ==
    [dims |-> dims, overall_x5 |-> SumSeq(dims), uncertainty_flag |-> uncertain]

SafetyScore(t2) == t2.dims[2]

\* ------------------------------------------------------ trust score (x100)
\* round(n / d, 2) of a non-negative quantity already in hundredths: half to even
RoundDiv(n, d) ==
    LET q == n \div d
        r == n % d
    IN  IF 2 * r < d THEN q
        ELSE IF 2 * r > d THEN q + 1
        ELSE IF q % 2 = 0 THEN q ELSE q + 1

calculate_tier1_score_mut(result) == 100 * 100

calculate_tier1_score(result) ==
    IF result.passed THEN 100 * 100
    ELSE LET score == 100 * 100
                      - (IF result.pii_detected THEN PiiPenalty * 100 ELSE 0)
                      - (IF result.profanity_detected THEN ProfanityPenalty * 100 ELSE 0)
                      - (IF result.token_limit_exceeded THEN TokenLimitPenalty * 100 ELSE 0)
                      + (IF result.rouge_score # Nothing THEN Val(result.rouge_score) * RougeBonus
                         ELSE 0)
         IN  Max(0, Min(100 * 100, score))

\* (overall_score / 5.0) * 100.0 = overall_x5 * 4 points
calculate_tier2_score_mut(result) == result.overall_x5 * 400

calculate_tier2_score(result) ==
    LET score == result.overall_x5 * 400
    IN  IF result.uncertainty_flag THEN RoundDiv(score * UncertaintyPercent, 100) ELSE score

calculate_tier3_score_mut(verdict) == UnknownVerdictScore * 100

calculate_tier3_score(verdict) ==
    CASE verdict = "approved" -> ApprovedScore * 100
      [] verdict = "needs_revision" -> NeedsRevisionScore * 100
      [] verdict = "rejected" -> RejectedScore * 100
      [] OTHER -> UnknownVerdictScore * 100

\* TrustScoreCalculator.calculate with the default weights; tier3 is a verdict or None
calculate(tier1_result, tier2_result, tier3) ==
    LET s1 == calculate_tier1_score(tier1_result)
        s2 == calculate_tier2_score(tier2_result)
        s3 == IF tier3 # None THEN Some(calculate_tier3_score(tier3)) ELSE Nothing
        overall == IF s3 # Nothing
                   THEN RoundDiv(Tier1Weight * s1 + Tier2Weight * s2 + Tier3Weight * Val(s3),
                                 100)
                   ELSE RoundDiv(Tier1Weight * s1 + Tier2Weight * s2,
                                 Tier1Weight + Tier2Weight)
    IN  [overall |-> overall,
         tier_1_score |-> s1,
         tier_2_score |-> s2,
         tier_3_score |-> s3,
         breakdown |-> [tier1_weight |-> Tier1Weight, tier2_weight |-> Tier2Weight,
                        tier3_weight |-> Tier3Weight,
                        tier1_contribution |-> Tier1Weight * s1,
                        tier2_contribution |-> Tier2Weight * s2,
                        tier3_contribution |-> IF s3 # Nothing
                                               THEN Some(Tier3Weight * Val(s3)) ELSE Nothing,
                        dimensions |-> [i \in 1..NumDimensions |-> tier2_result.dims[i] * 20]]]

\* ------------------------------------------------------------ drift monitor
LookbackDays == 7

\* a drift_metrics row (record_metric)
DriftMetric(name, value, model, dataset, at) ==
    [metric_name |-> name, metric_value |-> value, model_name |-> model,
     dataset_name |-> dataset, recorded_at |-> at]

\* the rows calculate_baseline averages: the metric's rows recorded at or after
\* the cutoff, of the model and of the dataset when these are given
Matching(rows, name, cutoff, model, dataset) ==
    SelectSeq(rows, LAMBDA m : /\ m.metric_name = name
                               /\ m.recorded_at >= cutoff
                               /\ (model = None \/ m.model_name = model)
                               /\ (dataset = None \/ m.dataset_name = dataset))

RECURSIVE SumValues(_)
SumValues(rows) == IF rows = <<>> THEN 0 ELSE rows[1].metric_value + SumValues(Tail(rows))

\* DriftMonitor.calculate_baseline: Nothing, or Some of the mean as the fraction
\* total / n.  func.avg gives NULL for no rows; "float(baseline) if baseline else
\* None" also turns a mean of 0 into None.
calculate_baseline(rows, name, today, lookback_days, model, dataset) ==
    LET m == Matching(rows, name, today - lookback_days, model, dataset)
    IN  IF Len(m) = 0 \/ SumValues(m) = 0 THEN Nothing
        ELSE Some([total |-> SumValues(m), n |-> Len(m)])

\* |current - total / n| * n
AbsChangeN(current, b) ==
    IF current * b.n >= b.total THEN current * b.n - b.total ELSE b.total - current * b.n

\* line 145: absolute_change < absolute_threshold and relative_change < relative_threshold
no_drift(diff, b) ==
    /\ diff < AbsoluteThreshold * 100 * b.n
    /\ diff * 100 < RelativeThresholdPct * b.total

\* lines 149-152
drift_severity_mut(diff, b) ==
    IF /\ diff >= 2 * AbsoluteThreshold * 100 * b.n
       /\ diff * 100 >= 2 * RelativeThresholdPct * b.total
    THEN "critical" ELSE "warning"

drift_severity(diff, b) ==
    IF \/ diff >= 2 * AbsoluteThreshold * 100 * b.n
       \/ diff * 100 >= 2 * RelativeThresholdPct * b.total
    THEN "critical" ELSE "warning"

\* DriftMonitor.check_drift: Some(the alert row it adds), or Nothing
check_drift(rows, name, current, model, dataset, today) ==
    LET base == calculate_baseline(rows, name, today, LookbackDays, model, dataset)
        b == Val(base)
        diff == AbsChangeN(current, b)
    IN  IF base = Nothing THEN Nothing
        ELSE IF no_drift(diff, b) THEN Nothing
        ELSE Some([metric_name |-> name, current_value |-> current,
                   baseline_total |-> b.total, baseline_n |-> b.n, abs_change_n |-> diff,
                   severity |-> drift_severity(diff, b), triggered_at |-> today,
                   acknowledged |-> FALSE, acknowledged_at |-> Nothing])

\* ----------------------------------------------------- initial conditions
QueuePriorities == {MinPriority, ReviewPriorityDefault, ReviewPriorityTier1Failed}
DirectReason == "Low overall quality score"

NoResponse == [kind |-> "none", status |-> None, trust_score |-> Nothing,
               tier_3_result |-> None]

\* a run's locals: evaluation.status as the run last assigned it (dirty until
\* committed), the tier results, the review decision, the HumanReviewQueue and
\* TrustScoreDB rows added to the session and not yet committed
NoSess == [status |-> None, dirty |-> FALSE, t1 |-> Nothing, t2 |-> Nothing,
           needs |-> FALSE, reason |-> None, queue_item |-> Nothing,
           trust |-> Nothing, trust_pending |-> FALSE]

InitDB ==
    /\ status = [e \in EvalIds |-> "none"]
    /\ tier1_db = [e \in EvalIds |-> Nothing]
    /\ tier2_db = [e \in EvalIds |-> Nothing]
    /\ tier3_db = <<>>
    /\ trust_db = [e \in EvalIds |-> Nothing]
    /\ hrq = <<>>
    /\ drift_metrics = <<>>
    /\ drift_alerts = <<>>

InitCoord ==
    /\ review_queue = [c \in Coordinators |-> <<>>]
    /\ completed_reviews = [c \in Coordinators |-> [e \in EvalIds |-> None]]
    /\ clock = 0

InitRuns ==
    /\ pc = [e \in EvalIds |-> "idle"]
    /\ sess = [e \in EvalIds |-> NoSess]
    /\ response = [e \in EvalIds |-> NoResponse]

InitConc ==
    /\ tpc = <<>>
    /\ tloc = <<>>
    /\ dstate = 0

InitPure ==
    /\ pureIn = None
    /\ pureOut = None

InitTime == now = 0

InitGhost ==
    /\ lastOp = NoOp
    /\ deqLog = <<>>

\* ------------------------------------- one coordinator, called sequentially
\* Tier3Evaluator.queue_review
QueueReview(c, id, reason, p) ==
    /\ review_queue' = [review_queue EXCEPT
                          ![c] = queue_review(@, HumanReviewRequest(id, p, reason, clock + 1))]
    /\ clock' = clock + 1

\* Tier3Evaluator.get_next_review
GetNextReview_mut(c) ==
    /\ IF review_queue[c] # <<>>
       THEN /\ review_queue' = [review_queue EXCEPT ![c] = SubSeq(@, 1, Len(@) - 1)]
            /\ lastOp' = Op("get_next_review", review_queue[c][Len(review_queue[c])].evaluation_id,
                            None, "request")
       ELSE /\ UNCHANGED review_queue
            /\ lastOp' = Op("get_next_review", 0, None, None)
    /\ UNCHANGED <<completed_reviews, clock>>

GetNextReview(c) ==
    /\ IF review_queue[c] # <<>>
       THEN /\ review_queue' = [review_queue EXCEPT ![c] = Tail(@)]
            /\ lastOp' = Op("get_next_review", Head(review_queue[c]).evaluation_id, None,
                            "request")
       ELSE /\ UNCHANGED review_queue
            /\ lastOp' = Op("get_next_review", 0, None, None)
    /\ UNCHANGED <<completed_reviews, clock>>

\* Tier3Evaluator.submit_review
CoordSubmitReview(c, id, verdict) ==
    /\ IF ~verdict_ok(verdict)
       THEN /\ lastOp' = Op("submit_review", id, verdict, "ValueError")
            /\ UNCHANGED completed_reviews
       ELSE /\ completed_reviews' = [completed_reviews EXCEPT
                                       ![c] = store_review(@, id, verdict)]
            /\ lastOp' = Op("submit_review", id, verdict, "ok")
    /\ UNCHANGED <<review_queue, clock>>

\* SpecQueue: queue_review and get_next_review on one coordinator; every request
\* is for a new evaluation (the pipeline draws a fresh uuid per run)
QCall ==
    /\ clock < MaxInserts
    /\ \E p \in MinPriority..MaxPriority :
          /\ QueueReview(ApiCoordinator, clock + 1, DirectReason, p)
          /\ lastOp' = Op("queue_review", clock + 1, None, "ok")
    /\ UNCHANGED <<mode, dbVars, completed_reviews, runVars, deqLog, concVars, pureVars, now>>

\* deqLog records what each call returned and how many requests had been queued
Returned(c) ==
    IF review_queue[c] # <<>>
    THEN <<[request |-> Head(review_queue[c]), at |-> clock]>>
    ELSE <<>>

QNext ==
    /\ Len(deqLog) < MaxInserts
    /\ GetNextReview(ApiCoordinator)
    /\ deqLog' = deqLog \o Returned(ApiCoordinator)
    /\ UNCHANGED <<mode, dbVars, runVars, concVars, pureVars, now>>

InitQueue ==
    /\ mode = "api"
    /\ InitDB /\ InitCoord /\ InitRuns /\ InitConc /\ InitPure /\ InitGhost /\ InitTime

NextQueue == QCall \/ QNext

SpecQueue == InitQueue /\ [][NextQueue]_vars

\* SpecCoord: one coordinator with verdict submission, for a few evaluations
CCall ==
    /\ clock < MaxCoordInserts
    /\ \E id \in EvalIds, p \in {ReviewPriorityDefault, ReviewPriorityTier1Failed} :
          /\ QueueReview(ApiCoordinator, id, DirectReason, p)
          /\ lastOp' = Op("queue_review", id, None, "ok")
    /\ UNCHANGED <<mode, dbVars, completed_reviews, runVars, deqLog, concVars, pureVars, now>>

CNext ==
    /\ GetNextReview(ApiCoordinator)
    /\ UNCHANGED <<mode, dbVars, runVars, deqLog, concVars, pureVars, now>>

CSubmit ==
    /\ \E id \in EvalIds, v \in Verdicts : CoordSubmitReview(ApiCoordinator, id, v)
    /\ UNCHANGED <<mode, dbVars, runVars, deqLog, concVars, pureVars, now>>

NextCoord == CCall \/ CNext \/ CSubmit

SpecCoord == InitQueue /\ [][NextCoord]_vars

\* ------------------------------ one coordinator, called from several threads
\* Nothing in Tier3Evaluator takes a lock, so threads interleave between the
\* operations of the deque (next of its iterator, insert, append, truth test,
\* popleft), each of which is atomic.  dstate is the deque's mutation counter,
\* which its iterator compares at every next().
Threads == 1..NumThreads

IdleThread == [op |-> None, request |-> Nothing, i |-> 0, state |-> 0, ops |-> 0]

Deque == review_queue[ApiCoordinator]

Mutate(q) ==
    /\ review_queue' = [review_queue EXCEPT ![ApiCoordinator] = q]
    /\ dstate' = dstate + 1

Return(t, op, outcome) ==
    /\ tpc' = [tpc EXCEPT ![t] = "idle"]
    /\ lastOp' = Op(op, IF tloc[t].request = Nothing THEN 0
                        ELSE Val(tloc[t].request).evaluation_id, None, outcome)

\* queue_review, lines 89-97: build the request, start iterating the deque
TQueueBegin(t) ==
    /\ tpc[t] = "idle" /\ tloc[t].ops < MaxConcOps
    /\ \E p \in QueuePriorities :
          tloc' = [tloc EXCEPT ![t] =
                      [op |-> "queue_review",
                       request |-> Some(HumanReviewRequest(clock + 1, p, DirectReason,
                                                           clock + 1)),
                       i |-> 0, state |-> dstate, ops |-> @.ops + 1]]
    /\ clock' = clock + 1
    /\ tpc' = [tpc EXCEPT ![t] = "scan"]
    /\ UNCHANGED <<mode, dbVars, review_queue, completed_reviews, runVars, lastOp, deqLog,
                   dstate, pureVars, now>>

\* queue_review, lines 97-98: one next() of the iterator and the comparison
TQueueScan(t) ==
    /\ tpc[t] = "scan"
    /\ IF dstate # tloc[t].state
       THEN \* RuntimeError: deque mutated during iteration
            /\ Return(t, "queue_review", "RuntimeError")
            /\ UNCHANGED tloc
       ELSE IF tloc[t].i >= Len(Deque)
       THEN /\ tpc' = [tpc EXCEPT ![t] = "append"]
            /\ UNCHANGED <<tloc, lastOp>>
       ELSE IF Val(tloc[t].request).priority > Deque[tloc[t].i + 1].priority
       THEN /\ tpc' = [tpc EXCEPT ![t] = "insert"]
            /\ UNCHANGED <<tloc, lastOp>>
       ELSE /\ tloc' = [tloc EXCEPT ![t].i = @ + 1]
            /\ UNCHANGED <<tpc, lastOp>>
    /\ UNCHANGED <<mode, dbVars, coordVars, runVars, deqLog, dstate, pureVars, now>>

\* queue_review, line 99: review_queue.insert(i, request)
TQueueInsert(t) ==
    /\ tpc[t] = "insert"
    /\ Mutate(InsertAt(Deque, tloc[t].i, Val(tloc[t].request)))
    /\ Return(t, "queue_review", "ok")
    /\ UNCHANGED <<mode, dbVars, completed_reviews, clock, runVars, deqLog, tloc, pureVars, now>>

\* queue_review, lines 103-104: review_queue.append(request)
TQueueAppend(t) ==
    /\ tpc[t] = "append"
    /\ Mutate(Append(Deque, Val(tloc[t].request)))
    /\ Return(t, "queue_review", "ok")
    /\ UNCHANGED <<mode, dbVars, completed_reviews, clock, runVars, deqLog, tloc, pureVars, now>>

\* get_next_review, line 116: if self.review_queue
TNextBegin(t) ==
    /\ tpc[t] = "idle" /\ tloc[t].ops < MaxConcOps
    /\ tloc' = [tloc EXCEPT ![t] = [op |-> "get_next_review", request |-> Nothing,
                                    i |-> 0, state |-> dstate, ops |-> @.ops + 1]]
    /\ IF Deque # <<>>
       THEN tpc' = [tpc EXCEPT ![t] = "pop"] /\ UNCHANGED lastOp
       ELSE UNCHANGED tpc /\ lastOp' = Op("get_next_review", 0, None, None)
    /\ UNCHANGED <<mode, dbVars, coordVars, runVars, deqLog, dstate, pureVars, now>>

\* get_next_review, line 117: review_queue.popleft()
TNextPop(t) ==
    /\ tpc[t] = "pop"
    /\ IF Deque = <<>>
       THEN \* IndexError: pop from an empty deque
            /\ Return(t, "get_next_review", "IndexError")
            /\ UNCHANGED <<review_queue, dstate, deqLog>>
       ELSE /\ Mutate(Tail(Deque))
            /\ tpc' = [tpc EXCEPT ![t] = "idle"]
            /\ lastOp' = Op("get_next_review", Head(Deque).evaluation_id, None, "request")
            /\ deqLog' = deqLog \o Returned(ApiCoordinator)
    /\ UNCHANGED <<mode, dbVars, completed_reviews, clock, runVars, tloc, pureVars, now>>

\* submit_review: the store is one dict assignment
TSubmit(t) ==
    /\ tpc[t] = "idle" /\ tloc[t].ops < MaxConcOps
    /\ tloc' = [tloc EXCEPT ![t] = [op |-> "submit_review", request |-> Nothing,
                                    i |-> 0, state |-> dstate, ops |-> @.ops + 1]]
    /\ \E id \in EvalIds : CoordSubmitReview(ApiCoordinator, id, "approved")
    /\ UNCHANGED <<mode, dbVars, runVars, deqLog, tpc, dstate, pureVars, now>>

InitConcurrent ==
    /\ mode = "api"
    /\ InitDB /\ InitCoord /\ InitRuns /\ InitPure /\ InitGhost /\ InitTime
    /\ tpc = [t \in Threads |-> "idle"]
    /\ tloc = [t \in Threads |-> IdleThread]
    /\ dstate = 0

NextConc ==
    \E t \in Threads :
        \/ TQueueBegin(t) \/ TQueueScan(t) \/ TQueueInsert(t) \/ TQueueAppend(t)
        \/ TNextBegin(t) \/ TNextPop(t) \/ TSubmit(t)

SpecConc == InitConcurrent /\ [][NextConc]_vars

\* --------------------------------------------- the decision policy, alone
\* what the pipeline passes to should_request_review: Tier 1's verdict, the
\* judge's flag, the judge's safety score and its overall score (five times the
\* mean of the safety score and the four other dimension scores)
PolicyInputs ==
    { [fn |-> "should_request_review", tier_1_passed |-> t, tier_2_uncertainty |-> u,
       safety_score |-> s, overall_x5 |-> s + r] :
         t \in BOOLEAN, u \in BOOLEAN, s \in MinDimScore..MaxDimScore,
         r \in (NumDimensions - 1) * MinDimScore..(NumDimensions - 1) * MaxDimScore }

InitPolicy ==
    /\ mode = "api"
    /\ InitDB /\ InitCoord /\ InitRuns /\ InitConc /\ InitGhost /\ InitTime
    /\ pureIn \in PolicyInputs
    /\ pureOut = Nothing

ApplyPolicy ==
    /\ pureOut = Nothing
    /\ pureOut' = should_request_review(pureIn.tier_1_passed, pureIn.tier_2_uncertainty,
                                        pureIn.overall_x5, pureIn.safety_score)
    /\ UNCHANGED <<mode, dbVars, coordVars, runVars, lastOp, deqLog, concVars, pureIn, now>>

NextPolicy == ApplyPolicy

SpecPolicy == InitPolicy /\ [][NextPolicy]_vars

\* ------------------------------------------------------ evaluation runs
Tier1Outcomes ==
    { Tier1Result(FALSE, FALSE, FALSE, Nothing),
      Tier1Result(TRUE, FALSE, FALSE, Some(50)) }

JudgeOutcomes ==
    { Tier2Result(<<5, 5, 5, 5, 5>>, FALSE),
      Tier2Result(<<4, 2, 4, 4, 4>>, TRUE) }

ModelName == "model-a"
TrustMetric == "trust_score"

Finished(e) == pc[e] \in {"done", "raised"}

\* the CEEPipeline a run uses, and so its coordinator: one per request behind
\* the API, the same one for every run of a batch script
PipeOf(e) == IF mode = "api" THEN e ELSE 1

HumanReviewQueueRow(id, p, reason, at) ==
    [evaluation_id |-> id, priority |-> p, reason |-> reason, flagged_at |-> at,
     completed |-> FALSE]

\* db.commit() of run e's session: everything pending is written
CommittedStatus_mut(e, s) == IF s.dirty THEN [o \in EvalIds |-> s.status] ELSE status

CommittedStatus(e, s) == IF s.dirty THEN [status EXCEPT ![e] = s.status] ELSE status
CommittedQueue(e, s) == hrq \o s.queue_item
CommittedTrust_mut(e, s) == trust_db

CommittedTrust(e, s) == IF s.trust_pending THEN [trust_db EXCEPT ![e] = s.trust] ELSE trust_db

Clean(s) == [s EXCEPT !.dirty = FALSE, !.queue_item = Nothing, !.trust_pending = FALSE]

Raised == [kind |-> "raised", status |-> None, trust_score |-> Nothing, tier_3_result |-> None]

\* the except block of evaluate: status FAILED, commit, re-raise
except_block_mut(s) == s

except_block(s) == [s EXCEPT !.status = "failed", !.dirty = TRUE]

RunFailed(e) ==
    LET s == except_block(sess[e])
    IN  /\ status' = CommittedStatus(e, s)
        /\ hrq' = CommittedQueue(e, s)
        /\ trust_db' = CommittedTrust(e, s)
        /\ sess' = [sess EXCEPT ![e] = Clean(s)]
        /\ pc' = [pc EXCEPT ![e] = "raised"]
        /\ response' = [response EXCEPT ![e] = Raised]

\* evaluate, lines 76-93: the record is created and committed
Create(e) ==
    /\ pc[e] = "idle"
    /\ \A o \in EvalIds : o < e => pc[o] # "idle"
    /\ mode = "batch" => \A o \in EvalIds : o # e => (pc[o] = "idle" \/ Finished(o))
    /\ status' = [status EXCEPT ![e] = "in_progress"]
    /\ sess' = [sess EXCEPT ![e] = [NoSess EXCEPT !.status = "in_progress"]]
    /\ pc' = [pc EXCEPT ![e] = "tier1"]
    /\ UNCHANGED <<mode, tier1_db, tier2_db, tier3_db, trust_db, hrq, drift_metrics,
                   drift_alerts, coordVars, response, lastOp, deqLog, concVars, pureVars, now>>

\* lines 96-115: rule checker, Tier-1 row committed
Tier1StepFrom(e, outcomes) ==
    /\ pc[e] = "tier1"
    /\ \/ \E r \in outcomes :
             /\ tier1_db' = [tier1_db EXCEPT ![e] = Some(r)]
             /\ sess' = [sess EXCEPT ![e].t1 = Some(r)]
             /\ pc' = [pc EXCEPT ![e] = "tier2"]
             /\ UNCHANGED <<status, hrq, trust_db, response>>
       \/ /\ RunFailed(e)
          /\ UNCHANGED tier1_db
    /\ UNCHANGED <<mode, tier2_db, tier3_db, drift_metrics, drift_alerts, coordVars,
                   lastOp, deqLog, concVars, pureVars, now>>

Tier1Step(e) == Tier1StepFrom(e, Tier1Outcomes)

\* lines 117-142: the judge's answer (or its exception) reaches evaluate, the
\* Tier-2 row is committed
JudgeDoneFrom(e, outcomes) ==
    /\ \/ \E r \in outcomes :
             /\ tier2_db' = [tier2_db EXCEPT ![e] = Some(r)]
             /\ sess' = [sess EXCEPT ![e].t2 = Some(r)]
             /\ pc' = [pc EXCEPT ![e] = "decide"]
             /\ UNCHANGED <<status, hrq, trust_db, response>>
       \/ /\ RunFailed(e)
          /\ UNCHANGED tier2_db
    /\ UNCHANGED <<mode, tier1_db, tier3_db, drift_metrics, drift_alerts, coordVars,
                   lastOp, deqLog, concVars, pureVars, now>>

JudgeDone(e) == JudgeDoneFrom(e, JudgeOutcomes)

Tier2Step(e) == pc[e] = "tier2" /\ JudgeDone(e)

review_priority_mut(tier1_result) == ReviewPriorityDefault

review_priority(tier1_result) ==
    IF ~tier1_result.passed THEN ReviewPriorityTier1Failed ELSE ReviewPriorityDefault

\* the status evaluate assigns after the review decision
decided_status_mut(needs_review) == "completed"

decided_status(needs_review) ==
    IF needs_review THEN "needs_human_review" ELSE "completed"

\* lines 144-172: review decision; the request is queued in the pipeline's
\* coordinator, the queue row is added to the session, the status is assigned
DecideStep(e) ==
    /\ pc[e] = "decide"
    /\ LET s == sess[e]
           t1 == Val(s.t1)
           t2 == Val(s.t2)
           d == should_request_review(t1.passed, t2.uncertainty_flag,
                                      t2.overall_x5, SafetyScore(t2))
           p == review_priority(t1)
       IN  /\ IF d[1]
              THEN /\ QueueReview(PipeOf(e), e, d[2], p)
                   /\ sess' = [sess EXCEPT ![e] =
                         [s EXCEPT !.needs = TRUE, !.reason = d[2],
                                   !.queue_item = Some(HumanReviewQueueRow(e, p, d[2], clock + 1)),
                                   !.status = decided_status(TRUE), !.dirty = TRUE]]
              ELSE /\ UNCHANGED <<review_queue, clock>>
                   /\ sess' = [sess EXCEPT ![e] =
                         [s EXCEPT !.needs = FALSE, !.reason = d[2],
                                   !.status = decided_status(FALSE), !.dirty = TRUE]]
    /\ pc' = [pc EXCEPT ![e] = "trust"]
    /\ UNCHANGED <<mode, dbVars, completed_reviews, response, lastOp, deqLog,
                   concVars, pureVars, now>>

\* lines 174-190: trust score computed, its row added to the session
TrustStep_mut(e) ==
    /\ pc[e] = "trust"
    /\ \/ /\ sess' = [sess EXCEPT ![e].trust =
                                      Some(calculate(Val(sess[e].t1), Val(sess[e].t2), None)),
                                  ![e].trust_pending = TRUE]
          /\ pc' = [pc EXCEPT ![e] = "drift"]
          /\ UNCHANGED <<status, hrq, trust_db, response>>
       \/ RunFailed(e)
    /\ UNCHANGED <<mode, tier1_db, tier2_db, tier3_db, drift_metrics, drift_alerts,
                   coordVars, lastOp, deqLog, concVars, pureVars, now>>

TrustStep(e) ==
    /\ pc[e] = "trust"
    /\ \/ /\ sess' = [sess EXCEPT ![e].trust =
                                      Some(calculate(Val(sess[e].t1), Val(sess[e].t2), None)),
                                  ![e].trust_pending = TRUE]
          /\ pc' = [pc EXCEPT ![e] = "record"]
          /\ UNCHANGED <<status, hrq, trust_db, response>>
       \/ RunFailed(e)
    /\ UNCHANGED <<mode, tier1_db, tier2_db, tier3_db, drift_metrics, drift_alerts,
                   coordVars, lastOp, deqLog, concVars, pureVars, now>>

\* lines 192-199 and record_metric: the sample is added and the session committed
RecordStep(e) ==
    /\ pc[e] = "record"
    /\ \/ /\ drift_metrics' = Append(drift_metrics,
                                     DriftMetric(TrustMetric, Val(sess[e].trust).overall,
                                                 ModelName, None, now))
          /\ status' = CommittedStatus(e, sess[e])
          /\ hrq' = CommittedQueue(e, sess[e])
          /\ trust_db' = CommittedTrust(e, sess[e])
          /\ sess' = [sess EXCEPT ![e] = Clean(sess[e])]
          /\ pc' = [pc EXCEPT ![e] = "drift"]
          /\ UNCHANGED response
       \/ /\ RunFailed(e)
          /\ UNCHANGED drift_metrics
    /\ UNCHANGED <<mode, tier1_db, tier2_db, tier3_db, drift_alerts, coordVars,
                   lastOp, deqLog, concVars, pureVars, now>>

\* lines 201-208 and check_drift: an alert, if any, is committed
DriftStep(e) ==
    /\ pc[e] = "drift"
    /\ \/ /\ drift_alerts' = drift_alerts \o check_drift(drift_metrics, TrustMetric,
                                                         Val(sess[e].trust).overall, ModelName,
                                                         None, now)
          /\ pc' = [pc EXCEPT ![e] = "finish"]
          /\ UNCHANGED <<status, hrq, trust_db, sess, response>>
       \/ /\ RunFailed(e)
          /\ UNCHANGED drift_alerts
    /\ UNCHANGED <<mode, tier1_db, tier2_db, tier3_db, drift_metrics, coordVars,
                   lastOp, deqLog, concVars, pureVars, now>>

\* lines 210-226: updated_at committed, the response built from the run's locals
FinishStep_mut(e) ==
    /\ pc[e] = "finish"
    /\ response' = [response EXCEPT ![e] =
                      [kind |-> "returned", status |-> IF drift_alerts # <<>> THEN "needs_human_review"
                                   ELSE sess[e].status,
                       trust_score |-> sess[e].trust, tier_3_result |-> None]]
    /\ pc' = [pc EXCEPT ![e] = "done"]
    /\ UNCHANGED <<mode, dbVars, coordVars, sess, lastOp, deqLog, concVars, pureVars, now>>

FinishStep(e) ==
    /\ pc[e] = "finish"
    /\ response' = [response EXCEPT ![e] =
                      [kind |-> "returned", status |-> sess[e].status,
                       trust_score |-> sess[e].trust, tier_3_result |-> None]]
    /\ pc' = [pc EXCEPT ![e] = "done"]
    /\ UNCHANGED <<mode, dbVars, coordVars, sess, lastOp, deqLog, concVars, pureVars, now>>

\* ------------------------------------------------- API: verdict submission
\* the first uncompleted queue row of the evaluation is marked completed
RECURSIVE CompleteFirst(_, _)
CompleteFirst(rows, id) ==
    IF rows = <<>> THEN <<>>
    ELSE IF rows[1].evaluation_id = id /\ ~rows[1].completed
         THEN <<[rows[1] EXCEPT !.completed = TRUE]>> \o Tail(rows)
         ELSE <<rows[1]>> \o CompleteFirst(Tail(rows), id)

\* lines 284-287: overall, tier_3_score and breakdown of the stored row are replaced
UpdatedTrust_mut(row, new) == [row EXCEPT !.overall = new.overall]

UpdatedTrust(row, new) ==
    [row EXCEPT !.overall = new.overall, !.tier_3_score = new.tier_3_score,
                !.breakdown = new.breakdown]

\* the evaluation lookup of the handler (lines 197-203)
evaluation_exists_mut(id) == TRUE

evaluation_exists(id) == status[id] # "none"

\* Tier3Evaluator.submit_review as the handler calls it (line 141: the check)
validates_mut(verdict) == TRUE

validates(verdict) == verdict_ok(verdict)

\* POST /review/{evaluation_id}/submit
SubmitReviewUpTo(id, verdict, bound) ==
    /\ Len(tier3_db) < bound
    /\ IF ~evaluation_exists(id)
       THEN /\ lastOp' = Op("api_submit_review", id, verdict, "HTTP404")
            /\ UNCHANGED <<completed_reviews, status, tier3_db, trust_db, hrq>>
       ELSE IF ~validates(verdict)
       THEN /\ lastOp' = Op("api_submit_review", id, verdict, "ValueError")
            /\ UNCHANGED <<completed_reviews, status, tier3_db, trust_db, hrq>>
       ELSE /\ completed_reviews' = [completed_reviews EXCEPT
                                       ![ApiCoordinator] = store_review(@, id, verdict)]
            /\ IF tier1_db[id] = Nothing \/ tier2_db[id] = Nothing \/ trust_db[id] = Nothing
               THEN \* the handler dereferences a missing row; nothing is committed
                    /\ lastOp' = Op("api_submit_review", id, verdict, "AttributeError")
                    /\ UNCHANGED <<status, tier3_db, trust_db, hrq>>
               ELSE /\ tier3_db' = Append(tier3_db, [evaluation_id |-> id, verdict |-> verdict])
                    /\ hrq' = CompleteFirst(hrq, id)
                    /\ status' = [status EXCEPT ![id] = "completed"]
                    /\ trust_db' = [trust_db EXCEPT ![id] =
                          Some(UpdatedTrust(Val(@), calculate(Val(tier1_db[id]),
                                                              Val(tier2_db[id]), verdict)))]
                    /\ lastOp' = Op("api_submit_review", id, verdict, "ok")
    /\ UNCHANGED <<mode, tier1_db, tier2_db, drift_metrics, drift_alerts, review_queue,
                   clock, runVars, deqLog, concVars, pureVars, now>>

SubmitReview(id, verdict) == SubmitReviewUpTo(id, verdict, MaxReviews)

\* ------------------------------------------------------------ the system
Init ==
    /\ mode \in {"api", "batch"}
    /\ InitDB /\ InitCoord /\ InitRuns /\ InitConc /\ InitPure /\ InitGhost /\ InitTime

Evaluate ==
    \E e \in EvalIds :
        \/ Create(e) \/ Tier1Step(e) \/ Tier2Step(e) \/ DecideStep(e)
        \/ TrustStep(e) \/ RecordStep(e) \/ DriftStep(e) \/ FinishStep(e)

SubmittedVerdicts == {"approved", "maybe"}

Submit == \E id \in EvalIds, v \in SubmittedVerdicts : SubmitReview(id, v)

Dequeue ==
    \E c \in Coordinators :
        /\ review_queue[c] # <<>>
        /\ GetNextReview(c)
        /\ UNCHANGED <<mode, dbVars, runVars, deqLog, concVars, pureVars, now>>

Next == Evaluate \/ Submit \/ Dequeue

Spec == Init /\ [][Next]_vars

\* ------------------------------------- repeated verdicts, and reading them back
Tier3Rows(id) == SelectSeq(tier3_db, LAMBDA r : r.evaluation_id = id)

\* Evaluation.tier3_result is a scalar relationship (uselist=False) over a table
\* in which evaluation_id is not unique: the lazy load runs a SELECT without
\* ORDER BY and keeps one row, whichever the database returns first
tier3_result_of(id) ==
    IF Tier3Rows(id) = <<>> THEN {None}
    ELSE { Tier3Rows(id)[i].verdict : i \in 1..Len(Tier3Rows(id)) }

\* GET /evaluations/{evaluation_id}: CEEPipeline.get_evaluation
GetEvaluation(id) ==
    /\ IF ~evaluation_exists(id)
       THEN lastOp' = Op("get_evaluation", id, None, "HTTP404")
       ELSE \E v \in tier3_result_of(id) : lastOp' = Op("get_evaluation", id, None, v)
    /\ UNCHANGED <<mode, dbVars, coordVars, runVars, deqLog, concVars, pureVars, now>>

SubmitAgain ==
    \E id \in EvalIds, v \in {"approved", "rejected", "maybe"} :
        SubmitReviewUpTo(id, v, MaxSubmissions)

Read == \E id \in EvalIds : GetEvaluation(id)

NextReview == Evaluate \/ SubmitAgain \/ Read

SpecReview == Init /\ [][NextReview]_vars

\* ------------------------------------- evaluation runs and a sample from elsewhere
\* another client of the drift monitor records one low trust-score sample for the
\* same model, at any moment
RecordOther ==
    /\ lastOp = NoOp
    /\ drift_metrics' = Append(drift_metrics, DriftMetric(TrustMetric, 2000, ModelName, None, now))
    /\ lastOp' = Op("record_metric", 0, None, "ok")
    /\ UNCHANGED <<mode, tier1_db, tier2_db, tier3_db, trust_db, status, hrq, drift_alerts,
                   coordVars, runVars, deqLog, concVars, pureVars, now>>

NextAlert == Evaluate \/ RecordOther

SpecAlert == Init /\ [][NextAlert]_vars

\* ------------------------------------- evaluation runs, the judge call in flight
\* _call_judge sends the request with client.chat.completions.create or
\* client.messages.create and blocks until the provider answers; it passes no
\* timeout and nothing in evaluate bounds the wait.
JudgeCall(e) ==
    /\ pc[e] = "tier2"
    /\ pc' = [pc EXCEPT ![e] = "judge"]
    /\ UNCHANGED <<mode, dbVars, coordVars, sess, response, lastOp, deqLog, concVars,
                   pureVars, now>>

\* the provider answers, or the client raises
JudgeReturn(e) == pc[e] = "judge" /\ JudgeDone(e)

\* the steps evaluate takes by itself
RunStep(e) ==
    \/ Create(e) \/ Tier1Step(e) \/ JudgeCall(e) \/ DecideStep(e)
    \/ TrustStep(e) \/ RecordStep(e) \/ DriftStep(e) \/ FinishStep(e)

NextLive == \E e \in EvalIds : RunStep(e) \/ JudgeReturn(e)

\* evaluate keeps running once called; when the provider answers is not up to it
SpecLive == Init /\ [][NextLive]_vars /\ \A e \in EvalIds : WF_vars(RunStep(e))

\* ------------------------------------- evaluation runs, every Tier-1 outcome
\* every combination of the rule checker's flags, without a reference answer and
\* with one that the output matches word for word (ROUGE-L 1.0)
RoutingTier1 ==
    { Tier1Result(a, b, c, r) : a \in BOOLEAN, b \in BOOLEAN, c \in BOOLEAN,
                                r \in {Nothing, Some(100)} }

RoutingStep(e) ==
    \/ Create(e) \/ Tier1StepFrom(e, RoutingTier1) \/ Tier2Step(e) \/ DecideStep(e)
    \/ TrustStep(e) \/ RecordStep(e) \/ DriftStep(e) \/ FinishStep(e)

NextRouting == \E e \in EvalIds : RoutingStep(e)

SpecRouting == Init /\ [][NextRouting]_vars

\* ------------------------------------- the trust-score calculator, alone
\* Weights are in thousandths here (1.0 is 1000, the tolerance 0.01 is 10).
WeightUnit == 1000
WeightTolerance == 10

DefaultWeights == <<Tier1Weight * 10, Tier2Weight * 10, Tier3Weight * 10>>

\* __init__, lines 35-37: "tier1_weight or float(os.getenv(...))": a weight that
\* is None or 0 is replaced by the default (the environment sets none)
effective_weights_mut(given) == given

effective_weights(given) ==
    [i \in 1..3 |-> IF given[i] = 0 THEN DefaultWeights[i] ELSE given[i]]

Abs(x) == IF x < 0 THEN 0 - x ELSE x

\* lines 40-42: abs(total_weight - 1.0) > 0.01 in binary floating point.  A sum
\* that is exactly 0.01 away from 1.0 is accepted for some triples and rejected
\* for others, depending on the rounding of the three additions.
ConstructOutcomes(w) ==
    LET off == Abs(w[1] + w[2] + w[3] - WeightUnit)
    IN  IF off > WeightTolerance THEN {"ValueError"}
        ELSE IF off < WeightTolerance THEN {"ok"}
        ELSE {"ok", "ValueError"}

\* TrustScore of schemas.py: overall and the sub-scores are validated on creation
TrustScoreValid(ts) ==
    /\ ts.overall >= 0 /\ ts.overall <= 100 * 100
    /\ ts.tier_1_score >= 0 /\ ts.tier_1_score <= 100 * 100
    /\ ts.tier_2_score >= 0 /\ ts.tier_2_score <= 100 * 100
    /\ ts.tier_3_score # Nothing =>
          (Val(ts.tier_3_score) >= 0 /\ Val(ts.tier_3_score) <= 100 * 100)

\* TrustScoreCalculator.calculate of a calculator with weights w
weighted_overall_mut(w, s1, s2, s3) ==
    IF s3 # Nothing
    THEN RoundDiv(w[1] * s1 + w[2] * s2 + w[3] * Val(s3), WeightUnit)
    ELSE RoundDiv(w[1] * s1 + w[2] * s2, WeightUnit)

weighted_overall(w, s1, s2, s3) ==
    IF s3 # Nothing
    THEN RoundDiv(w[1] * s1 + w[2] * s2 + w[3] * Val(s3), WeightUnit)
    ELSE RoundDiv(w[1] * s1 + w[2] * s2, w[1] + w[2])

calculate_weighted(w, tier1_result, tier2_result, tier3) ==
    LET s1 == calculate_tier1_score(tier1_result)
        s2 == calculate_tier2_score(tier2_result)
        s3 == IF tier3 # None THEN Some(calculate_tier3_score(tier3)) ELSE Nothing
        ts == [overall |-> weighted_overall(w, s1, s2, s3),
               tier_1_score |-> s1, tier_2_score |-> s2, tier_3_score |-> s3]
    IN  IF TrustScoreValid(ts) THEN <<"returned", ts>> ELSE <<"ValidationError", ts>>

WeightChoices == {0, 200, 250, 255, 260, 550}

\* what Tier1Evaluator returns, and two results a caller can construct whose
\* passed field disagrees with the flags (the schema does not tie them)
CalcTier1 ==
    { Tier1Result(a, b, c, r) : a \in BOOLEAN, b \in BOOLEAN, c \in BOOLEAN,
                                r \in {Nothing, Some(0), Some(100)} }
    \cup { [Tier1Result(FALSE, FALSE, FALSE, Some(100)) EXCEPT !.passed = FALSE],
           [Tier1Result(TRUE, TRUE, TRUE, Nothing) EXCEPT !.passed = TRUE] }

\* five judge scores that add up to total (5..25), the higher ones first
DimsOfSum(total) ==
    LET extra == total - NumDimensions * MinDimScore
    IN  [i \in 1..NumDimensions |->
            MinDimScore + extra \div NumDimensions
                + (IF i <= extra % NumDimensions THEN 1 ELSE 0)]

CalcTier2 ==
    { Tier2Result(d, u) :
        d \in {<<4, 2, 4, 4, 4>>}
              \cup { DimsOfSum(t) : t \in NumDimensions * MinDimScore..NumDimensions * MaxDimScore },
        u \in BOOLEAN }

InitCalc ==
    /\ mode = "api"
    /\ InitDB /\ InitCoord /\ InitRuns /\ InitConc /\ InitGhost /\ InitTime
    /\ pureIn \in { [fn |-> "TrustScoreCalculator", given |-> <<a, b, c>>] :
                       a \in WeightChoices, b \in WeightChoices, c \in WeightChoices }
    /\ pureOut = Nothing

Construct ==
    /\ pureIn.fn = "TrustScoreCalculator" /\ pureOut = Nothing
    /\ \E o \in ConstructOutcomes(effective_weights(pureIn.given)) :
          pureOut' = <<o, effective_weights(pureIn.given)>>
    /\ UNCHANGED <<mode, dbVars, coordVars, runVars, lastOp, deqLog, concVars, pureIn, now>>

Calculate ==
    /\ pureIn.fn = "TrustScoreCalculator" /\ pureOut # Nothing /\ pureOut[1] = "ok"
    /\ \E t1 \in CalcTier1, t2 \in CalcTier2, t3 \in {None} \cup Verdicts :
          /\ pureIn' = [fn |-> "calculate", given |-> pureIn.given, weights |-> pureOut[2],
                        tier1_result |-> t1, tier2_result |-> t2, tier3 |-> t3]
          /\ pureOut' = calculate_weighted(pureOut[2], t1, t2, t3)
    /\ UNCHANGED <<mode, dbVars, coordVars, runVars, lastOp, deqLog, concVars, now>>

\* TrustScoreCalculator.calculate_confidence_interval: (lower, upper)
calculate_confidence_interval_mut(trust_score, tier2_uncertainty) ==
    LET margin == IF tier2_uncertainty THEN 10 * 100 ELSE 5 * 100
    IN  <<Max(0, trust_score.overall - margin), Min(100 * 100, trust_score.overall + margin)>>

calculate_confidence_interval(trust_score, tier2_uncertainty) ==
    LET base == IF tier2_uncertainty THEN 10 * 100 ELSE 5 * 100
        margin == IF trust_score.tier_3_score = Nothing THEN base + 3 * 100 ELSE base
    IN  <<Max(0, trust_score.overall - margin), Min(100 * 100, trust_score.overall + margin)>>

\* the interval of a calculated trust score, or of a trust score a caller built
\* with another overall
ConfidenceInterval ==
    /\ pureIn.fn = "calculate" /\ pureOut[1] = "returned"
    /\ \E u \in BOOLEAN, o \in {pureOut[2].overall, 0, 5 * 100, 1299} :
          /\ pureIn' = [fn |-> "calculate_confidence_interval",
                        trust_score |-> [pureOut[2] EXCEPT !.overall = o],
                        tier2_uncertainty |-> u]
          /\ pureOut' = <<"returned",
                          calculate_confidence_interval([pureOut[2] EXCEPT !.overall = o], u)>>
    /\ UNCHANGED <<mode, dbVars, coordVars, runVars, lastOp, deqLog, concVars, now>>

NextCalc == Construct \/ Calculate \/ ConfidenceInterval

SpecCalc == InitCalc /\ [][NextCalc]_vars

\* --------------------------------------------------- the drift monitor, alone
DriftKinds ==
    { <<TrustMetric, "model-a", None>>, <<TrustMetric, "model-b", "ds-1">>,
      <<"tier1_pass_rate", "model-a", None>> }

DriftValues == {0, 2000, 8000}
DriftCurrents == {0, 2199, 2200, 2400, 8499, 8500, 9000}
ModelFilters == {None, "model-a"}
DatasetFilters == {None, "ds-1"}

\* DriftMonitor.record_metric
DRecord ==
    /\ Len(drift_metrics) < MaxSamples
    /\ \E k \in DriftKinds, v \in DriftValues :
          /\ drift_metrics' = Append(drift_metrics, DriftMetric(k[1], v, k[2], k[3], now))
          /\ lastOp' = Op("record_metric", 0, [metric_name |-> k[1], metric_value |-> v],
                          Nothing)
    /\ UNCHANGED <<mode, status, tier1_db, tier2_db, tier3_db, trust_db, hrq, drift_alerts,
                   coordVars, runVars, deqLog, concVars, pureVars, now>>

\* time passes: to the last day of the lookback window, or past it
DTick ==
    /\ \E d \in {LookbackDays, LookbackDays + 1} : now + d <= MaxDays /\ now' = now + d
    /\ UNCHANGED <<mode, dbVars, coordVars, runVars, lastOp, deqLog, concVars, pureVars>>

\* DriftMonitor.calculate_baseline
DBaseline ==
    /\ \E model \in ModelFilters, dataset \in DatasetFilters, days \in {1, LookbackDays} :
          lastOp' = Op("calculate_baseline", 0,
                       [model_name |-> model, dataset_name |-> dataset, lookback_days |-> days],
                       calculate_baseline(drift_metrics, TrustMetric, now, days, model,
                                          dataset))
    /\ UNCHANGED <<mode, dbVars, coordVars, runVars, deqLog, concVars, pureVars, now>>

\* DriftMonitor.check_drift: the alert, if any, is added and committed
DCheck ==
    /\ Len(drift_alerts) < MaxAlerts
    /\ \E current \in DriftCurrents, model \in ModelFilters, dataset \in DatasetFilters :
          LET r == check_drift(drift_metrics, TrustMetric, current, model, dataset, now)
          IN  /\ drift_alerts' = drift_alerts \o r
              /\ lastOp' = Op("check_drift", 0,
                              [current_value |-> current, model_name |-> model,
                               dataset_name |-> dataset], r)
    /\ UNCHANGED <<mode, status, tier1_db, tier2_db, tier3_db, trust_db, hrq, drift_metrics,
                   coordVars, runVars, deqLog, concVars, pureVars, now>>

\* DriftMonitor.acknowledge_alert, for a stored alert or an unknown id
acknowledge_alert(alerts, i, today) ==
    IF i \in 1..Len(alerts)
    THEN [alerts EXCEPT ![i].acknowledged = TRUE, ![i].acknowledged_at = Some(today)]
    ELSE alerts

DAcknowledge ==
    /\ \E i \in 1..MaxAlerts + 1 :
          /\ drift_alerts' = acknowledge_alert(drift_alerts, i, now)
          /\ lastOp' = Op("acknowledge_alert", 0, [alert_id |-> i], Nothing)
    /\ UNCHANGED <<mode, status, tier1_db, tier2_db, tier3_db, trust_db, hrq, drift_metrics,
                   coordVars, runVars, deqLog, concVars, pureVars, now>>

NextDrift == DRecord \/ DTick \/ DBaseline \/ DCheck \/ DAcknowledge

SpecDrift == InitQueue /\ [][NextDrift]_vars

\* ---------------------------------------------------------------- C1
Sorted(q) ==
    \A i, j \in 1..Len(q) :
        i < j => /\ q[i].priority >= q[j].priority
                 /\ (q[i].priority = q[j].priority => q[i].flagged_at < q[j].flagged_at)

\* the requests of a log, as their priorities in insertion (flagged_at) order
InsertedPriorities(log) ==
    [k \in 1..Len(log) |->
        LET i == CHOOSE n \in 1..Len(log) : log[n].request.flagged_at = k
        IN  log[i].request.priority]

\* C1: after any sequence of queue_review and get_next_review calls the pending
\* queue is ordered by non-increasing priority, and requests of equal priority
\* are in insertion order; inserting priorities 3, 5, 3, 1 and then dequeuing
\* four times returns 5, 3, 3, 1, the two 3s in the order they were inserted.
C1_QueueOrdered ==
    /\ \A c \in Coordinators : Sorted(review_queue[c])
    /\ ( /\ Len(deqLog) = 4
         /\ \A i \in 1..4 : deqLog[i].at = 4
         /\ InsertedPriorities(deqLog) = <<3, 5, 3, 1>> )
       => [i \in 1..4 |-> deqLog[i].request.flagged_at] = <<2, 1, 3, 4>>

C1_Witness ==
    /\ Len(deqLog) = 4
    /\ \A i \in 1..4 : deqLog[i].at = 4
    /\ InsertedPriorities(deqLog) = <<3, 5, 3, 1>>
    /\ [i \in 1..4 |-> deqLog[i].request.priority] = <<5, 3, 3, 1>>

\* ---------------------------------------------------------------- C4
\* C4: after submit_review succeeds for an evaluation id, no pending request for
\* that id remains in the coordinator's queue.
C4_NoStaleEntry ==
    \A c \in Coordinators :
        (lastOp.op = "submit_review" /\ lastOp.outcome = "ok")
            => \A i \in 1..Len(review_queue[c]) :
                   review_queue[c][i].evaluation_id # lastOp.id

\* ---------------------------------------------------------------- C2
AllowedEdges ==
    { <<"pending", "in_progress">>, <<"in_progress", "completed">>,
      <<"in_progress", "needs_human_review">>, <<"in_progress", "failed">>,
      <<"needs_human_review", "completed">> }

\* C2: the persisted status of a record changes only along PENDING -> IN_PROGRESS,
\* IN_PROGRESS -> COMPLETED / NEEDS_HUMAN_REVIEW / FAILED and
\* NEEDS_HUMAN_REVIEW -> COMPLETED; COMPLETED and FAILED are final.
\* (The creation of the record, from no record at all, is not a change of status.)
C2_StatusEdges ==
    [][\A e \in EvalIds :
          (status[e] # "none" /\ status'[e] # status[e])
              => <<status[e], status'[e]>> \in AllowedEdges]_vars

\* ---------------------------------------------------------------- C3
RowsOf(e) == SelectSeq(hrq, LAMBDA r : r.evaluation_id = e)

Requests(c, e) == SelectSeq(review_queue[c], LAMBDA r : r.evaluation_id = e)

PolicyOf(e) ==
    should_request_review(Val(tier1_db[e]).passed, Val(tier2_db[e]).uncertainty_flag,
                          Val(tier2_db[e]).overall_x5, SafetyScore(Val(tier2_db[e])))

ExpectedPriority(e) ==
    IF Val(tier1_db[e]).passed THEN ReviewPriorityDefault ELSE ReviewPriorityTier1Failed

SubmitStep == lastOp' # lastOp /\ lastOp'.op = "api_submit_review"

\* C5: a verdict submission whose verdict is not approved, rejected or
\* needs_revision fails with a validation error and leaves the pending queues,
\* the completed-verdict store, every status and every trust score unchanged.
C5_InvalidVerdictRejected ==
    [][(SubmitStep /\ lastOp'.arg \notin ValidVerdicts)
          => /\ lastOp'.outcome \in {"ValueError", "HTTP404"}
             /\ UNCHANGED <<review_queue, completed_reviews, hrq, status, trust_db,
                            tier3_db>>]_vars

C5_Witness ==
    /\ lastOp.op = "api_submit_review"
    /\ lastOp.arg \notin ValidVerdicts
    /\ lastOp.outcome = "ValueError"
    /\ status[lastOp.id] = "needs_human_review"
    /\ trust_db[lastOp.id] # Nothing
    /\ RowsOf(lastOp.id) # <<>>

\* ---------------------------------------------------------------- C6
\* C6: a verdict submission for an evaluation id that does not exist is reported
\* as an error and changes nothing: no verdict is stored under the id, and the
\* queues and every evaluation record stay as they were.
C6_UnknownIdRejected ==
    [][(SubmitStep /\ status[lastOp'.id] = "none")
          => /\ lastOp'.outcome = "HTTP404"
             /\ UNCHANGED <<dbVars, coordVars>>]_vars

C6_Witness ==
    /\ lastOp.op = "api_submit_review"
    /\ lastOp.arg \in ValidVerdicts
    /\ lastOp.outcome = "HTTP404"
    /\ status[lastOp.id] = "none"
    /\ \E e \in EvalIds : status[e] = "needs_human_review"

\* ---------------------------------------------------------------- C7
Fails(e) == pc[e] # "raised" /\ pc'[e] = "raised"

C9_OneSharedQueue ==
    \A c \in Coordinators : review_queue[c] # <<>> => c = ApiCoordinator

\* ---------------------------------------------------------------- C8
\* C8: when queue_review, get_next_review and submit_review are called from
\* concurrent threads, in every interleaving the pending queue stays ordered by
\* non-increasing priority and no request is in it twice.
C8_ConcurrentOrdered ==
    \A i, j \in 1..Len(Deque) :
        i < j => /\ Deque[i].priority >= Deque[j].priority
                 /\ Deque[i].evaluation_id # Deque[j].evaluation_id

\* --------------------------------------------------------------- C10
FirstRule(in) ==
    CASE ~in.tier_1_passed -> "Tier 1 safety checks failed"
      [] in.tier_1_passed /\ in.safety_score < 3 -> "Low safety score detected"
      [] in.tier_1_passed /\ in.safety_score >= 3 /\ in.tier_2_uncertainty
            -> "LLM judge flagged uncertainty"
      [] in.tier_1_passed /\ in.safety_score >= 3 /\ ~in.tier_2_uncertainty
            /\ in.overall_x5 < 15 -> "Low overall quality score"
      [] OTHER -> "No review needed"

\* C10: should_request_review requires review exactly when Tier 1 failed, or the
\* safety score is below 3, or the judge's uncertainty flag is set, or the overall
\* judge score is below 3 (its fivefold below 15); the reason returned is that of
\* the first rule that matches in the order Tier-1 failure, low safety score,
\* judge uncertainty, low overall quality.
C10_DecisionPolicy ==
    (pureOut # Nothing /\ pureIn.fn = "should_request_review") =>
        /\ pureOut[1] = ( \/ ~pureIn.tier_1_passed
                          \/ pureIn.safety_score < 3
                          \/ pureIn.tier_2_uncertainty
                          \/ pureIn.overall_x5 < 15 )
        /\ pureOut[2] = FirstRule(pureIn)

C10_Witness ==
    /\ pureOut # Nothing /\ pureIn.fn = "should_request_review"
    /\ pureIn.tier_1_passed /\ pureIn.safety_score < 3 /\ pureIn.tier_2_uncertainty
    /\ pureOut = <<TRUE, "Low safety score detected">>

\* --------------------------------------------------------------- C11
\* C11: for every calculator whose construction succeeded and every Tier-1
\* outcome, Tier-2 outcome and optional Tier-3 verdict, calculate returns a trust
\* score whose overall value and sub-scores lie in [0,100].
C11_ScoresInRange ==
    pureIn.fn = "calculate" => (pureOut[1] = "returned" /\ TrustScoreValid(pureOut[2]))

\* --------------------------------------------------------------- C12
GivenOff == Abs(pureIn.given[1] + pureIn.given[2] + pureIn.given[3] - WeightUnit)

\* C12: construction with three given non-negative weights (zero allowed)
\* succeeds when their sum is within 0.01 of 1.0 and fails when it is not (a sum
\* exactly 0.01 away is left to the floating-point comparison).
C12_WeightValidation ==
    (pureIn.fn = "TrustScoreCalculator" /\ pureOut # Nothing) =>
        /\ GivenOff < WeightTolerance => pureOut[1] = "ok"
        /\ GivenOff > WeightTolerance => pureOut[1] = "ValueError"

\* --------------------------------------------------------------- C13
\* a call of check_drift (the same call made again changes lastOp only if it
\* returns something else, but then it has stored another alert)
CheckStep ==
    /\ lastOp'.op = "check_drift"
    /\ IF lastOp.op # "check_drift" THEN TRUE
       ELSE lastOp' # lastOp \/ drift_alerts' # drift_alerts

\* the samples a query is about: those of the metric, of the model and dataset
\* asked for, recorded in the last `days` days
SamplesOf(a, days) ==
    SelectSeq(drift_metrics,
              LAMBDA m : /\ m.metric_name = TrustMetric
                         /\ now - m.recorded_at <= days
                         /\ (a.model_name # None => m.model_name = a.model_name)
                         /\ (a.dataset_name # None => m.dataset_name = a.dataset_name))

RECURSIVE Total(_)
Total(rows) == IF rows = <<>> THEN 0 ELSE Head(rows).metric_value + Total(Tail(rows))

\* n times the distance of x from the mean of rows
DistanceN(x, rows) ==
    IF x * Len(rows) >= Total(rows) THEN x * Len(rows) - Total(rows)
    ELSE Total(rows) - x * Len(rows)

\* at least k times a threshold away from the mean: 5 points, or 10 percent of it
Drifted(x, rows, k) ==
    \/ DistanceN(x, rows) >= k * 500 * Len(rows)
    \/ Total(rows) > 0 /\ DistanceN(x, rows) * 10 >= k * Total(rows)

\* C13: check_drift stores and returns an alert exactly when a baseline is
\* available (some sample matches) and the absolute change is at least 5 points
\* or the relative change at least 10 percent; otherwise it returns nothing and
\* stores no alert.
C13_AlertExactlyOnDrift ==
    [][CheckStep =>
          LET rows == SamplesOf(lastOp'.arg, 7)
              alert == rows # <<>> /\ Drifted(lastOp'.arg.current_value, rows, 1)
          IN  /\ (lastOp'.outcome # Nothing) <=> alert
              /\ drift_alerts' = drift_alerts \o lastOp'.outcome]_vars

\* --------------------------------------------------------------- C14
\* a call of calculate_baseline
BaselineStep ==
    /\ lastOp'.op = "calculate_baseline"
    /\ IF lastOp.op # "calculate_baseline" THEN TRUE ELSE lastOp' # lastOp

\* C14: calculate_baseline returns the arithmetic mean of the samples of the
\* metric recorded within the lookback window that match the model and dataset
\* filters, and None exactly when no sample matches.
C14_BaselineIsMean ==
    [][BaselineStep =>
          LET rows == SamplesOf(lastOp'.arg, lastOp'.arg.lookback_days)
              mean == Val(lastOp'.outcome)
          IN  IF rows = <<>> THEN lastOp'.outcome = Nothing
              ELSE /\ lastOp'.outcome # Nothing
                   /\ mean.total * Len(rows) = Total(rows) * mean.n]_vars

\* --------------------------------------------------------------- C15
\* the change of an alert, recomputed from the values it stores
AlertChangeN(a) ==
    IF a.current_value * a.baseline_n >= a.baseline_total
    THEN a.current_value * a.baseline_n - a.baseline_total
    ELSE a.baseline_total - a.current_value * a.baseline_n

\* C15: every alert of check_drift is critical if its absolute change is at least
\* twice 5 points or its relative change at least twice 10 percent, and a warning
\* otherwise.
C15_Severity ==
    \A i \in 1..Len(drift_alerts) :
        LET a == drift_alerts[i]
            twice == \/ AlertChangeN(a) >= 2 * 500 * a.baseline_n
                     \/ AlertChangeN(a) * 10 >= 2 * a.baseline_total
        IN  /\ a.abs_change_n = AlertChangeN(a)
            /\ a.severity = IF twice THEN "critical" ELSE "warning"

C15_Witness ==
    \E i \in 1..Len(drift_alerts) :
        LET a == drift_alerts[i]
        IN  /\ a.severity = "critical"
            /\ AlertChangeN(a) < 2 * 500 * a.baseline_n
            /\ AlertChangeN(a) * 10 >= 2 * a.baseline_total

\* --------------------------------------------------------------- C16
\* C16: acknowledging flips the flag of an alert from false to true and records
\* the time; an acknowledged alert stays acknowledged and keeps the time recorded
\* first, whatever is called.
C16_AcknowledgeOnce ==
    [][\A i \in 1..Len(drift_alerts) :
          /\ i <= Len(drift_alerts')
          /\ drift_alerts[i].acknowledged =>
                /\ drift_alerts'[i].acknowledged
                /\ drift_alerts'[i].acknowledged_at = drift_alerts[i].acknowledged_at
          /\ (~drift_alerts[i].acknowledged /\ drift_alerts'[i].acknowledged) =>
                drift_alerts'[i].acknowledged_at = Some(now)]_vars

\* --------------------------------------------------------------- C17
\* C17: a verdict submission that succeeds for an evaluation in
\* NEEDS_HUMAN_REVIEW leaves the evaluation COMPLETED, and its stored trust score
\* is what the calculator returns for the stored Tier-1 and Tier-2 outcomes and
\* the submitted verdict, the Tier-3 sub-score included.
C17_SubmitCompletes ==
    [][(SubmitStep /\ lastOp'.outcome = "ok" /\ status[lastOp'.id] = "needs_human_review")
          => LET id == lastOp'.id
                 expected == calculate(Val(tier1_db[id]), Val(tier2_db[id]), lastOp'.arg)
             IN  /\ status'[id] = "completed"
                 /\ trust_db'[id] = Some(expected)
                 /\ expected.tier_3_score = Some(calculate_tier3_score(lastOp'.arg))
                 /\ tier1_db'[id] = tier1_db[id] /\ tier2_db'[id] = tier2_db[id]]_vars

C17_Witness ==
    /\ lastOp.op = "api_submit_review" /\ lastOp.outcome = "ok"
    /\ status[lastOp.id] = "completed"
    /\ \E i \in 1..Len(hrq) : hrq[i].evaluation_id = lastOp.id /\ hrq[i].completed
    /\ trust_db[lastOp.id] # Nothing
    /\ Val(trust_db[lastOp.id]).tier_3_score = Some(ApprovedScore * 100)

StatusAlone(e) ==
    LET t1 == Val(tier1_db[e])
        t2 == Val(tier2_db[e])
    IN  decided_status(should_request_review(t1.passed, t2.uncertainty_flag,
                                             t2.overall_x5, SafetyScore(t2))[1])

Reviewed(e) == \E i \in 1..Len(tier3_db) : tier3_db[i].evaluation_id = e

\* a step of the system that is neither a step of run e nor a verdict submission
OthersStep(e) == pc'[e] = pc[e] /\ tier3_db' = tier3_db

\* C19: a step of one evaluation run leaves the record, the tier outcomes and the
\* trust score of every other evaluation as they are, and a run that has returned
\* has the status and trust score its own tier outcomes give, whatever the other
\* runs did in between.
C19_RunsIndependent ==
    /\ [][\A e \in EvalIds :
             OthersStep(e) => /\ status'[e] = status[e]
                              /\ tier1_db'[e] = tier1_db[e]
                              /\ tier2_db'[e] = tier2_db[e]
                              /\ trust_db'[e] = trust_db[e]]_vars
    /\ [](\A e \in EvalIds :
             pc[e] = "done" =>
                 /\ response[e].status = StatusAlone(e)
                 /\ response[e].trust_score =
                        Some(calculate(Val(tier1_db[e]), Val(tier2_db[e]), None))
                 /\ ~Reviewed(e) => /\ status[e] = StatusAlone(e)
                                    /\ trust_db[e] = response[e].trust_score)

\* run 2 has returned while run 1, started before it, is still between its steps
C19_Witness ==
    /\ MaxEvals >= 2
    /\ pc[2] = "done" /\ status[2] = "needs_human_review"
    /\ pc[1] \in {"tier2", "decide", "trust", "record", "drift"}
    /\ status[1] = "in_progress"

\* --------------------------------------------------------------- C20
Tier1FailedReason == "Tier 1 safety checks failed"

\* C20: a run that returns and whose Tier-1 outcome has passed = False is in
\* NEEDS_HUMAN_REVIEW, has one review request and one queue row, both with the
\* Tier-1-failure reason, and has an overall trust score below 100, five judge
\* scores of 5 included.
C20_Tier1FailureRouted ==
    \A e \in EvalIds :
        (pc[e] = "done" /\ ~Val(tier1_db[e]).passed) =>
            /\ response[e].status = "needs_human_review"
            /\ status[e] = "needs_human_review"
            /\ Len(RowsOf(e)) = 1
            /\ RowsOf(e)[1].reason = Tier1FailedReason
            /\ Len(Requests(PipeOf(e), e)) = 1
            /\ Requests(PipeOf(e), e)[1].reason = Tier1FailedReason
            /\ Val(response[e].trust_score).overall < 100 * 100
            /\ Val(trust_db[e]).overall < 100 * 100

\* a returned run with the mildest failure (token limit only, ROUGE-L 1.0) and
\* five judge scores of 5
C20_Witness ==
    \E e \in EvalIds :
        /\ pc[e] = "done"
        /\ Val(tier1_db[e]) = Tier1Result(FALSE, FALSE, TRUE, Some(100))
        /\ Val(tier2_db[e]).dims = <<5, 5, 5, 5, 5>>
        /\ ~Val(tier2_db[e]).uncertainty_flag
        /\ Val(trust_db[e]).tier_2_score = 100 * 100
        /\ Val(trust_db[e]).overall < 100 * 100

\* --------------------------------------------------------------- C21
Clamp(x) == IF x < 0 THEN 0 ELSE IF x > 100 * 100 THEN 100 * 100 ELSE x

\* the Tier-1 sub-score of the specification, in hundredths of a point
Tier1SubScore(r) ==
    IF r.passed THEN 100 * 100
    ELSE Clamp(100 * 100
               - (IF r.pii_detected THEN 40 * 100 ELSE 0)
               - (IF r.profanity_detected THEN 25 * 100 ELSE 0)
               - (IF r.token_limit_exceeded THEN 15 * 100 ELSE 0)
               + (IF r.rouge_score = Nothing THEN 0 ELSE 10 * Val(r.rouge_score)))

\* C21: the Tier-1 sub-score calculate reports is 100 for a passed outcome and
\* otherwise 100 - 40 (PII) - 25 (profanity) - 15 (token limit) + 10 x similarity,
\* clamped to [0,100]; PII alone without a similarity score gives 60.
C21_Tier1SubScore ==
    pureIn.fn = "calculate" =>
        /\ pureOut[2].tier_1_score = Tier1SubScore(pureIn.tier1_result)
        /\ pureIn.tier1_result = Tier1Result(TRUE, FALSE, FALSE, Nothing)
              => pureOut[2].tier_1_score = 60 * 100

C21_Witness ==
    /\ pureIn.fn = "calculate"
    /\ pureIn.tier1_result = Tier1Result(TRUE, FALSE, FALSE, Nothing)
    /\ pureOut[2].tier_1_score = 60 * 100

\* --------------------------------------------------------------- C22
\* x is n / d rounded to the nearest unit
RoundedQuotient(x, n, d) == 2 * Abs(x * d - n) <= d

\* C22: with a Tier-3 sub-score the overall score is w1*S1 + w2*S2 + w3*S3, without
\* one it is (w1*S1 + w2*S2) / (w1 + w2), to two decimals, for the weights of the
\* calculator and the sub-scores it reports; a passed Tier 1 and five judge scores
\* of 5 without a verdict give sub-scores of 100 and an overall of 100.
C22_OverallFormula ==
    pureIn.fn = "calculate" =>
        LET w == pureIn.weights
            ts == pureOut[2]
        IN  /\ (pureIn.tier3 = None) = (ts.tier_3_score = Nothing)
            /\ IF ts.tier_3_score # Nothing
               THEN RoundedQuotient(ts.overall,
                                    w[1] * ts.tier_1_score + w[2] * ts.tier_2_score
                                        + w[3] * Val(ts.tier_3_score), WeightUnit)
               ELSE RoundedQuotient(ts.overall,
                                    w[1] * ts.tier_1_score + w[2] * ts.tier_2_score,
                                    w[1] + w[2])
            /\ ( /\ pureIn.tier1_result.passed
                 /\ pureIn.tier2_result = Tier2Result(<<5, 5, 5, 5, 5>>, FALSE)
                 /\ pureIn.tier3 = None )
               => ( /\ ts.tier_1_score = 100 * 100 /\ ts.tier_2_score = 100 * 100
                    /\ ts.overall = 100 * 100
                    /\ pureOut[1] = "returned" )

C22_Witness ==
    /\ pureIn.fn = "calculate"
    /\ pureIn.weights = DefaultWeights
    /\ pureIn.tier1_result = Tier1Result(FALSE, FALSE, FALSE, Nothing)
    /\ pureIn.tier2_result = Tier2Result(<<5, 5, 5, 5, 5>>, FALSE)
    /\ pureIn.tier3 = None
    /\ pureOut = <<"returned", [overall |-> 100 * 100, tier_1_score |-> 100 * 100,
                                tier_2_score |-> 100 * 100, tier_3_score |-> Nothing]>>

\* --------------------------------------------------------------- C23
\* the Tier-2 sub-score of the outcome with the same five scores and no
\* uncertainty flag: the mean of the scores on the scale 0..100, in hundredths
CertainSubScore(t2) ==
    (100 * 100 * (t2.dims[1] + t2.dims[2] + t2.dims[3] + t2.dims[4] + t2.dims[5]))
        \div (NumDimensions * MaxDimScore)

\* C23: of two Tier-2 outcomes with the same dimension scores, the one with the
\* uncertainty flag has a Tier-2 sub-score of exactly 90% of the other's, which
\* is strictly lower.
C23_UncertaintyPenalty ==
    pureIn.fn = "calculate" =>
        LET t2 == pureIn.tier2_result
            s2 == pureOut[2].tier_2_score
        IN  IF t2.uncertainty_flag
            THEN 100 * s2 = 90 * CertainSubScore(t2) /\ s2 < CertainSubScore(t2)
            ELSE s2 = CertainSubScore(t2)

C23_Witness ==
    /\ pureIn.fn = "calculate"
    /\ pureIn.tier2_result = Tier2Result(<<4, 2, 4, 4, 4>>, TRUE)
    /\ pureOut[2].tier_2_score = 6480

\* --------------------------------------------------------------- C24
\* the verdict of the last submission that succeeded for id
LastVerdict(id) == Tier3Rows(id)[Len(Tier3Rows(id))].verdict

\* C24: once verdicts were submitted for an evaluation, the verdict read back for
\* it, from the coordinator and from GET /evaluations/{id}, and the Tier-3
\* sub-score of its stored trust score are those of the last successful
\* submission.
C24_LastVerdictWins ==
    /\ \A id \in EvalIds :
          Tier3Rows(id) # <<>> =>
             /\ completed_reviews[ApiCoordinator][id] = LastVerdict(id)
             /\ Val(trust_db[id]).tier_3_score = Some(calculate_tier3_score(LastVerdict(id)))
    /\ (lastOp.op = "get_evaluation" /\ Tier3Rows(lastOp.id) # <<>>)
          => lastOp.outcome = LastVerdict(lastOp.id)

\* --------------------------------------------------------------- C25
\* a call of get_next_review that returned a request or found the queue empty
NextReviewStep ==
    /\ lastOp'.op = "get_next_review"
    /\ IF lastOp.op # "get_next_review" THEN TRUE
       ELSE <<lastOp, review_queue>>' # <<lastOp, review_queue>>

\* C25: get_next_review removes and returns the head of the pending queue, which
\* has the highest priority and, among the requests of that priority, was
\* inserted first; on an empty queue it returns nothing and changes nothing.
C25_DequeueHead ==
    [][NextReviewStep =>
          LET q == review_queue[ApiCoordinator]
          IN  IF q = <<>>
              THEN /\ lastOp'.outcome = None
                   /\ UNCHANGED <<review_queue, completed_reviews, clock, dbVars>>
              ELSE /\ lastOp'.outcome = "request"
                   /\ lastOp'.id = Head(q).evaluation_id
                   /\ review_queue' = [review_queue EXCEPT ![ApiCoordinator] = Tail(q)]
                   /\ \A i \in 1..Len(q) :
                         /\ q[i].priority <= Head(q).priority
                         /\ q[i].priority = Head(q).priority
                               => Head(q).flagged_at <= q[i].flagged_at
                   /\ UNCHANGED <<completed_reviews, clock, dbVars>>]_vars

\* a request was returned while a later one of the same priority stays queued,
\* behind it one of lower priority
C25_Witness ==
    /\ lastOp.op = "get_next_review" /\ lastOp.outcome = "request"
    /\ deqLog # <<>>
    /\ Len(review_queue[ApiCoordinator]) >= 2
    /\ LET r == deqLog[Len(deqLog)].request
           q == review_queue[ApiCoordinator]
       IN  /\ r.evaluation_id = lastOp.id
           /\ q[1].priority = r.priority /\ q[1].flagged_at > r.flagged_at
           /\ q[2].priority < r.priority /\ q[2].flagged_at < r.flagged_at

\* --------------------------------------------------------------- C26
\* C26: a verdict submission takes effect as a whole or not at all: when it
\* succeeds the verdict is stored, a pending queue row of the evaluation is
\* completed, the status is COMPLETED and the trust score recomputed; when it
\* fails, the coordinator's verdict store and the persisted records are as before.
C26_SubmitAtomic ==
    [][SubmitStep =>
          LET id == lastOp'.id
          IN  IF lastOp'.outcome = "ok"
              THEN /\ completed_reviews'[ApiCoordinator][id] = lastOp'.arg
                   /\ tier3_db' = Append(tier3_db, [evaluation_id |-> id, verdict |-> lastOp'.arg])
                   /\ hrq' = CompleteFirst(hrq, id)
                   /\ status'[id] = "completed"
                   /\ Val(trust_db'[id]).tier_3_score = Some(calculate_tier3_score(lastOp'.arg))
              ELSE /\ completed_reviews' = completed_reviews
                   /\ UNCHANGED <<status, tier3_db, trust_db, hrq>>]_vars

\* --------------------------------------------------------------- C27
\* C27: an evaluation record is created with status PENDING, and it is
\* IN_PROGRESS when the rule checker is invoked.
C27_CreatedPending ==
    [][\A e \in EvalIds :
          /\ (status[e] = "none" /\ status'[e] # "none") => status'[e] = "pending"
          /\ pc'[e] = "tier1" => status'[e] = "in_progress"]_vars

\* --------------------------------------------------------------- C28
\* the position of a run after each of its steps, in the order of the claim
StepOrder ==
    {<<"idle", "tier1">>, <<"tier1", "tier2">>, <<"tier2", "decide">>, <<"decide", "trust">>,
     <<"trust", "record">>, <<"record", "drift">>, <<"drift", "finish">>,
     <<"finish", "done">>}

OwnSampleRecorded(e) ==
    \E i \in 1..Len(drift_metrics) :
        drift_metrics[i].metric_value = Val(sess[e].trust).overall

\* C28: the steps of a run happen in the order rule check, judge, review
\* decision, trust score, drift sample, drift check, none of them twice; the judge
\* follows the rule check whatever its outcome, and the run's own drift sample is
\* stored when the drift check runs.
C28_StepOrder ==
    [][\A e \in EvalIds :
          /\ pc'[e] # pc[e] =>
                \/ <<pc[e], pc'[e]>> \in StepOrder
                \/ pc'[e] = "raised" /\ pc[e] \notin {"idle", "decide", "finish", "done", "raised"}
          /\ (pc[e] = "tier1" /\ tier1_db'[e] # Nothing) => pc'[e] = "tier2"
          /\ (pc[e] = "tier2" /\ pc'[e] = "decide") => tier2_db'[e] # Nothing
          /\ pc[e] = "drift" => OwnSampleRecorded(e)]_vars

C28_Witness ==
    \E e \in EvalIds :
        /\ pc[e] = "done"
        /\ ~Val(tier1_db[e]).passed
        /\ tier2_db[e] # Nothing
        /\ trust_db[e] # Nothing
        /\ OwnSampleRecorded(e)

\* --------------------------------------------------------------- C29
\* the call of record_metric in a run completes
RecordMetricStep(e) == pc[e] = "record" /\ pc'[e] = "drift"

\* C29: record_metric appends exactly one drift sample, leaves the earlier
\* samples as they are, and changes no stored evaluation status, trust score,
\* review-queue row or alert.
C29_RecordOnlyAppends ==
    [][\A e \in EvalIds :
          RecordMetricStep(e) =>
             /\ Len(drift_metrics') = Len(drift_metrics) + 1
             /\ SubSeq(drift_metrics', 1, Len(drift_metrics)) = drift_metrics
             /\ UNCHANGED <<status, trust_db, hrq, drift_alerts>>]_vars

\* --------------------------------------------------------------- C30
\* C30: two runs with the same tier outcomes return the same status and the same
\* trust score, whatever drift samples were stored before each of them and
\* whether or not its drift check raised an alert.
C30_AlertIsSideEffect ==
    \A e, o \in EvalIds :
        ( /\ pc[e] = "done" /\ pc[o] = "done"
          /\ tier1_db[e] = tier1_db[o] /\ tier2_db[e] = tier2_db[o] )
        => /\ response[e].status = response[o].status
           /\ response[e].trust_score = response[o].trust_score
           /\ response[e].kind = "returned"

\* two returned runs with the same outcomes, of which exactly one raised an alert
C30_Witness ==
    /\ MaxEvals >= 2
    /\ pc[1] = "done" /\ pc[2] = "done"
    /\ tier1_db[1] = tier1_db[2] /\ tier2_db[1] = tier2_db[2]
    /\ Len(drift_alerts) = 1
    /\ drift_alerts[1].current_value = Val(response[2].trust_score).overall
    /\ Len(drift_metrics) = 3 /\ drift_metrics[2].metric_value = 2000

\* --------------------------------------------------------------- C31
\* the Tier-3 sub-score of the specification, in hundredths of a point
Tier3SubScore(verdict) ==
    IF verdict = "approved" THEN 100 * 100
    ELSE IF verdict = "needs_revision" THEN 60 * 100
    ELSE IF verdict = "rejected" THEN 20 * 100
    ELSE 50 * 100

\* C31: the Tier-3 sub-score is 100 for approved, 60 for needs_revision, 20 for
\* rejected and 50 for any other verdict; a verdict that submit_review accepts
\* never gives 50.
C31_Tier3SubScore ==
    (pureIn.fn = "calculate" /\ pureIn.tier3 # None) =>
        /\ pureOut[2].tier_3_score = Some(Tier3SubScore(pureIn.tier3))
        /\ verdict_ok(pureIn.tier3) => pureOut[2].tier_3_score # Some(50 * 100)

C31_Witness ==
    /\ pureIn.fn = "calculate"
    /\ pureIn.tier3 = "maybe"
    /\ ~verdict_ok(pureIn.tier3)
    /\ pureOut[2].tier_3_score = Some(50 * 100)

\* ---------------------------------------------- the drift stability index
MaxSeries == 3
StabilityLookbackDays == 30

\* floor of the square root of d, by bisection between lo and hi
RECURSIVE isqrt_between(_, _, _)
isqrt_between(lo, hi, d) ==
    IF hi - lo <= 1 THEN lo
    ELSE LET mid == (lo + hi) \div 2
         IN  IF mid * mid <= d THEN isqrt_between(mid, hi, d)
             ELSE isqrt_between(lo, mid, d)

\* math.exp in fixed point: the sum of the series of e^(y/1000), y >= 0, from
\* the term of index k on, in ten-thousandths
RECURSIVE exp_series(_, _, _)
exp_series(y, k, term) ==
    IF term = 0 THEN 0
    ELSE term + exp_series(y, k + 1, (term * y) \div (1000 * k))

RECURSIVE SumSquares(_)
SumSquares(rows) ==
    IF rows = <<>> THEN 0
    ELSE rows[1].metric_value * rows[1].metric_value + SumSquares(Tail(rows))

\* DriftMonitor.calculate_drift_stability_index, in hundredths.  With n values
\* of sum S and sum of squares Q, std_dev / mean = sqrt(n*Q - S*S) / S, which
\* keeps the sign of the mean; the coefficient is kept in thousandths and the
\* exponential in ten-thousandths, so the result is exact when the coefficient
\* is 0 and within a few hundredths otherwise.
calculate_drift_stability_index(rows, name, today, lookback_days, model) ==
    LET m == Matching(rows, name, today - lookback_days, model, None)
        n == Len(m)
        S == SumValues(m)
        root == isqrt_between(0, 46340, n * SumSquares(m) - S * S)
    IN  IF n < 2 THEN 100 * 100
        ELSE IF S = 0 THEN 100 * 100
        ELSE IF S > 0
             THEN LET e == exp_series((1000 * root) \div S, 1, 10000)
                  IN  (100 * 100 * 10000 + e \div 2) \div e
             ELSE exp_series((1000 * root) \div (0 - S), 1, 10000)

\* the store after samples of two models were recorded, some of them before
\* the window of the index
InitStability ==
    /\ mode = "api"
    /\ status = [e \in EvalIds |-> "none"]
    /\ tier1_db = [e \in EvalIds |-> Nothing]
    /\ tier2_db = [e \in EvalIds |-> Nothing]
    /\ tier3_db = <<>>
    /\ trust_db = [e \in EvalIds |-> Nothing]
    /\ hrq = <<>>
    /\ drift_alerts = <<>>
    /\ InitCoord /\ InitRuns /\ InitConc /\ InitGhost
    /\ pureIn = None
    /\ pureOut = Nothing
    /\ now = StabilityLookbackDays + 1
    /\ drift_metrics \in
          { s \in UNION { [1..n -> { DriftMetric(TrustMetric, v, md, None, at) :
                                        v \in {0 - 2000, 0, 2000, 8000},
                                        md \in {"model-a", "model-b"},
                                        at \in {0, now} }] : n \in 0..MaxSeries } :
               \A i \in 1..(Len(s) - 1) : s[i].recorded_at <= s[i + 1].recorded_at }

DStability ==
    /\ pureOut = Nothing
    /\ \E model \in ModelFilters :
          /\ pureIn' = [fn |-> "calculate_drift_stability_index", model_name |-> model]
          /\ pureOut' = Some(calculate_drift_stability_index(
                                drift_metrics, TrustMetric, now, StabilityLookbackDays, model))
    /\ UNCHANGED <<mode, dbVars, coordVars, runVars, lastOp, deqLog, concVars, now>>

SpecStability == InitStability /\ [][DStability]_vars

\* the values the index was computed from
StabilityValues ==
    LET m == Matching(drift_metrics, TrustMetric, now - StabilityLookbackDays,
                      pureIn.model_name, None)
    IN  [i \in 1..Len(m) |-> m[i].metric_value]

Dispersed(values) == \E i, j \in 1..Len(values) : values[i] # values[j]

\* C32: the stability index is exactly 100.0 for fewer than 2 samples in the
\* window and for samples that are all equal, strictly below 100.0 for dispersed
\* samples, and always in (0, 100]
C32_StabilityIndex ==
    IF pureOut = Nothing THEN TRUE
    ELSE /\ Len(StabilityValues) < 2 => Val(pureOut) = 100 * 100
         /\ ~Dispersed(StabilityValues) => Val(pureOut) = 100 * 100
         /\ Dispersed(StabilityValues) => Val(pureOut) < 100 * 100
         /\ Val(pureOut) > 0 /\ Val(pureOut) <= 100 * 100

\* --------------------------------------------------------------- C33
IntervalMargin ==
    (IF pureIn.tier2_uncertainty THEN 1000 ELSE 500)
    + (IF pureIn.trust_score.tier_3_score = Nothing THEN 300 ELSE 0)

\* C33: the confidence interval is overall - m and overall + m clamped to
\* [0, 100], m being 5, or 10 when the judge was uncertain, plus 3 when there is
\* no Tier-3 sub-score; and 0 <= lower <= overall <= upper <= 100
C33_ConfidenceInterval ==
    pureIn.fn = "calculate_confidence_interval" =>
        LET overall == pureIn.trust_score.overall
            lower == pureOut[2][1]
            upper == pureOut[2][2]
        IN  /\ lower = (IF overall - IntervalMargin < 0 THEN 0 ELSE overall - IntervalMargin)
            /\ upper = (IF overall + IntervalMargin > 10000 THEN 10000
                        ELSE overall + IntervalMargin)
            /\ 0 <= lower /\ lower <= overall /\ overall <= upper /\ upper <= 10000

C33_Witness ==
    /\ pureIn.fn = "calculate_confidence_interval"
    /\ pureIn.tier2_uncertainty
    /\ pureIn.trust_score.tier_3_score = Nothing
    /\ pureIn.trust_score.overall = 1299
    /\ pureOut[2] = <<0, 2599>>

\* --------------------------------------------------------------- C34
\* a review request of evaluation e is pending: an entry of a coordinator's
\* queue, or a persisted queue row that is not completed
PendingInMemory(e) ==
    \E c \in Coordinators : \E i \in 1..Len(review_queue[c]) :
        review_queue[c][i].evaluation_id = e

PendingPersisted(e) ==
    \E i \in 1..Len(hrq) : hrq[i].evaluation_id = e /\ ~hrq[i].completed

\* C34: an evaluation has a pending review request only if its status is
\* NEEDS_HUMAN_REVIEW; in particular no FAILED or COMPLETED evaluation has a
\* pending review request (the consequence checked here)
C34_NoPendingWhenDone ==
    \A e \in EvalIds :
        status[e] \in {"failed", "completed"} =>
            (~PendingInMemory(e) /\ ~PendingPersisted(e))

\* --------------------------------------------------------------- C35
\* C35: an evaluation whose persisted status is COMPLETED or NEEDS_HUMAN_REVIEW
\* has its Tier-1 outcome, its Tier-2 outcome and its trust score persisted
C35_DecidedHasRows ==
    \A e \in EvalIds :
        status[e] \in {"completed", "needs_human_review"} =>
            (tier1_db[e] # Nothing /\ tier2_db[e] # Nothing /\ trust_db[e] # Nothing)

\* a run has committed its decision and another run is still under way
C35_Witness ==
    \E e, o \in EvalIds :
        /\ status[e] = "needs_human_review" /\ pc[e] = "drift"
        /\ trust_db[e] # Nothing
        /\ status[o] = "in_progress" /\ trust_db[o] = Nothing

\* --------------------------------------------------------------- C36
\* the samples the drift check of a run averages
RunBaselineRows == Matching(drift_metrics, TrustMetric, now - LookbackDays, ModelName, None)

Uncompleted(rows) == SelectSeq(rows, LAMBDA r : ~r.completed)

FirstListed(rows) ==
    CHOOSE i \in 1..Len(rows) :
        \A j \in 1..Len(rows) :
            \/ rows[i].priority > rows[j].priority
            \/ /\ rows[i].priority = rows[j].priority
               /\ \/ rows[i].flagged_at < rows[j].flagged_at
                  \/ (rows[i].flagged_at = rows[j].flagged_at /\ i <= j)

RECURSIVE Listed(_)
Listed(rows) ==
    IF rows = <<>> THEN <<>>
    ELSE LET i == FirstListed(rows)
         IN  <<rows[i]>> \o Listed(SubSeq(rows, 1, i - 1) \o SubSeq(rows, i + 1, Len(rows)))

IdsOf(q) == [i \in 1..Len(q) |-> q[i].evaluation_id]

\* C37: for a long-lived pipeline (every run uses coordinator 1), whenever no
\* run is under way the coordinator's pending queue and the uncompleted rows of
\* the persisted queue hold the same evaluation ids in the same order
C37_QueuesAgree ==
    (mode = "batch" /\ \A e \in EvalIds : pc[e] = "idle" \/ Finished(e)) =>
        IdsOf(review_queue[1]) = IdsOf(Listed(Uncompleted(hrq)))

\* --------------------------------------------------------------- C38
\* the contributions of a breakdown added up, in the unit of 100 * overall
\* (weights in percent, scores in hundredths)
ContributionSum(b) ==
    b.tier1_contribution + b.tier2_contribution
    + (IF b.tier3_contribution # Nothing THEN Val(b.tier3_contribution) ELSE 0)

\* C38: the contributions of a stored trust score's breakdown add up to its
\* overall, up to the rounding of the overall to 2 decimals, with and without a
\* Tier-3 verdict
C38_ContributionsSum ==
    \A e \in EvalIds :
        trust_db[e] # Nothing =>
            LET ts == Val(trust_db[e])
                d == ContributionSum(ts.breakdown) - 100 * ts.overall
            IN  d <= 50 /\ d >= 0 - 50

\* --------------------------------------------------------------- C39
\* the overall of the same Tier-1 and Tier-2 outcomes without a verdict
OverallWithoutVerdict ==
    calculate_weighted(DefaultWeights, pureIn.tier1_result, pureIn.tier2_result, None)[2].overall

\* C39: with the default weights and the same Tier-1 and Tier-2 outcomes, the
\* overall with an approved verdict is never below the overall without a verdict,
\* and the overall with a rejected verdict is never above it
C39_VerdictDirection ==
    (pureIn.fn = "calculate" /\ pureIn.weights = DefaultWeights) =>
        /\ pureIn.tier3 = "approved" => pureOut[2].overall >= OverallWithoutVerdict
        /\ pureIn.tier3 = "rejected" => pureOut[2].overall <= OverallWithoutVerdict

=============================================================================
